---- MODULE Spec2Model ----
(***************************************************************************)
(* RoboSet video preparation: the quota-aware walker and its driver        *)
(* (processing.py), the simple walker and its driver                       *)
(* (prepare_Autonomous.py) and the per-row dataset driver (download.py).   *)
(*                                                                         *)
(* The file system is the program's state: the working directory holds     *)
(* the downloaded archive and the extracted tree, the task directory holds *)
(* the four view directories with the produced files.  What the program    *)
(* reads from outside (the archive's members, a container's keys, a        *)
(* stream's shape, whether an encoder works) is drawn when it is read.     *)
(***************************************************************************)
EXTENDS Integers, Sequences, FiniteSets, TLC

\* ------------------------------------------------------------------ bounds
MaxPairs == 1          \* max_pairs is drawn from 1..MaxPairs
MaxFiles == 2          \* .h5 files the Record Locator returns for one archive
MaxTrials == 2         \* trial keys held by the containers of one archive
MaxValid == 4          \* valid view streams held by one archive
MaxFaults == 1         \* views of one archive on which an encoder fails
MaxRows == 2           \* rows of the CSV file
MaxWorkers == 2        \* worker processes of the pool
MaxCount == 26         \* frame_count is drawn from 2..MaxCount for the sampler
MaxTotal == 60         \* total_frames is drawn up to MaxTotal for the sampler
MaxCallPairs == 2      \* max_pairs of a call made twice is drawn from 1..MaxCallPairs
MaxDim == 33           \* frame width and height are drawn from 1..MaxDim

\* --------------------------------------------------------- program constants
frame_count == 25

rgb_views == <<"rgb_left", "rgb_right", "rgb_top", "rgb_wrist">>

view_dirs == <<"left", "right", "top", "wrist">>

\* view.split('_')[1]
ViewName(view) ==
    CASE view = "rgb_left" -> "left"
      [] view = "rgb_right" -> "right"
      [] view = "rgb_top" -> "top"
      [] view = "rgb_wrist" -> "wrist"

ViewNames == {ViewName(rgb_views[i]) : i \in 1..Len(rgb_views)}

\* ------------------------------------------------------------- trial keys
\* A key of the container is a name; what the walker looks at is whether it
\* contains 'Trial' and what is left when 'Trial' is taken out.  A key is
\* [isTrial, rest]: rest is the sequence of the remaining characters, a
\* decimal digit 0..9 or NonDigit.
NonDigit == 10

IsDigits(rest) == Len(rest) > 0 /\ \A i \in 1..Len(rest) : rest[i] < NonDigit

\* int(x.replace('Trial', '')) for a string of digits
RECURSIVE IntOf(_)
IntOf(rest) ==
    IF Len(rest) = 0 THEN 0
    ELSE 10 * IntOf(SubSeq(rest, 1, Len(rest) - 1)) + rest[Len(rest)]

\* The order of Python's str comparison on the remaining characters
\* (h5py lists keys in name order; the common prefix does not matter).
RECURSIVE LexLess(_, _)
LexLess(a, b) ==
    IF Len(a) = 0 THEN Len(b) > 0
    ELSE IF Len(b) = 0 THEN FALSE
    ELSE IF a[1] # b[1] THEN a[1] < b[1]
    ELSE LexLess(Tail(a), Tail(b))

\* The elements of a set of key rests as the sequence in name order.
RECURSIVE LexSeq(_)
LexSeq(S) ==
    IF S = {} THEN <<>>
    ELSE LET m == CHOOSE x \in S : \A y \in S \ {x} : LexLess(x, y)
         IN <<m>> \o LexSeq(S \ {m})

\* Insert x after the last element whose key is <= key(x): a stable sort step.
RECURSIVE InsertByInt(_, _)
InsertByInt(s, x) ==
    IF Len(s) = 0 THEN <<x>>
    ELSE IF IntOf(s[Len(s)]) <= IntOf(x) THEN Append(s, x)
    ELSE Append(InsertByInt(SubSeq(s, 1, Len(s) - 1), x), s[Len(s)])

RECURSIVE SortByInt(_)
SortByInt(s) ==
    IF Len(s) = 0 THEN <<>>
    ELSE InsertByInt(SortByInt(SubSeq(s, 1, Len(s) - 1)), s[Len(s)])

\* What a mistaken sorted(...) without the key function would give.
SortedTrialsLexical(keys) == LexSeq({k.rest : k \in {x \in keys : x.isTrial}})

\* sorted([k for k in file.keys() if 'Trial' in k], key=lambda x: int(...))
SortedTrials(keys) == SortByInt(LexSeq({k.rest : k \in {x \in keys : x.isTrial}}))

\* int() raises ValueError for some key that contains 'Trial'
KeyUnparsable(keys) == \E k \in keys : k.isTrial /\ ~IsDigits(k.rest)

\* The trial numbers in use, written in decimal: Trial10, Trial2, Trial1,
\* Trial20, ...; a larger bound takes more of them.
TrialRests == <<(<<1, 0>>), (<<2>>), (<<1>>), (<<2, 0>>), (<<1, 1>>), (<<3>>)>>

\* The keys a container may hold: the trial keys, TrialX and a key without
\* 'Trial'.
TrialKeys ==
    {[isTrial |-> TRUE, rest |-> TrialRests[i]] :
        i \in 1..(IF MaxTrials < Len(TrialRests) THEN MaxTrials ELSE Len(TrialRests))}
    \cup {[isTrial |-> TRUE, rest |-> <<NonDigit>>], [isTrial |-> FALSE, rest |-> <<NonDigit>>]}

NumTrialKeys(keys) == Cardinality({k \in keys : k.isTrial})

\* The key sets of a container, given how many trial keys the archive has left.
KeySets(left) == {K \in SUBSET TrialKeys : NumTrialKeys(K) <= left}

\* ----------------------------------------------------------- view streams
\* frames.shape of a view stream
Shapes ==
    {<<50, 64, 64, 3>>, <<25, 64, 64, 3>>, <<24, 64, 64, 3>>,
     <<30, 64, 64, 4>>, <<30, 64, 64>>}

\* What a check that forgets the channel count would accept.
ShapeValidAnyChannels(shape) ==
    ~(Len(shape) # 4 \/ shape[1] < frame_count)

\* not (len(frames.shape) != 4 or frames.shape[0] < frame_count or frames.shape[3] != 3)
ShapeValid(shape) ==
    ~(Len(shape) # 4 \/ shape[1] < frame_count \/ shape[4] # 3)

\* ------------------------------------------------------- the frame sampler
\* np.linspace computes i * step in double arithmetic, step the double
\* nearest (total_frames - 1) / (num - 1), and takes the floor.  The
\* <<total_frames, num, i>> up to 61 frames and 27 samples where the exact
\* product is an integer and the double product lies just below it:
RoundedDown == {<<31, 23, 11>>, <<61, 23, 11>>, <<31, 27, 13>>, <<61, 27, 13>>}

\* What np.linspace(..., endpoint=False) would give.
LinspaceNoEndpoint(total_frames, num) ==
    [k \in 1..num |-> ((k - 1) * (total_frames - 1)) \div num]

\* indices = np.linspace(0, total_frames-1, frame_count, dtype=int): the last
\* entry is set to the stop value itself.
Linspace(total_frames, num) ==
    [k \in 1..num |->
        IF k = num THEN total_frames - 1
        ELSE LET exact == ((k - 1) * (total_frames - 1)) \div (num - 1)
             IN IF <<total_frames, num, k - 1>> \in RoundedDown
                THEN exact - 1 ELSE exact]

\* ------------------------------------------------------------ file names
\* <base_filename>-Trial<N>-<view_name>.<ext>
OutName(base, trial, view_name, ext) ==
    [base |-> base, trial |-> trial, view |-> view_name, ext |-> ext]

\* A file that no walker wrote.
Foreign(i) == [base |-> "other", trial |-> <<i>>, view |-> "none", ext |-> "txt"]

\* os.path.basename(h5_path).replace('.h5', '')
BaseFilename(h5_path) == h5_path.base

\* The .h5 paths an extracted tree may hold: s1/f.h5, s2/f.h5 and s1/g.h5.
H5Paths ==
    <<[dir |-> "s1", base |-> "f"], [dir |-> "s2", base |-> "f"],
      [dir |-> "s1", base |-> "g"]>>

Increasing(s) == \A i, j \in 1..Len(s) : i < j => s[i] < s[j]

\* What glob.glob may return: up to MaxFiles distinct paths.  The order glob
\* gives is that of the directory listing; the paths are named in that order.
H5Lists ==
    {<<>>} \cup
    {[i \in 1..Len(s) |-> H5Paths[s[i]]] :
        s \in UNION {{t \in [1..n -> 1..Len(H5Paths)] : Increasing(t) /\ t[1] = 1} :
                        n \in 1..MaxFiles}}

\* ----------------------------------------------------------------- state
VARIABLES
    prog,        \* "processing" (download.py + processing.py) or "prepare" (prepare_Autonomous.py)
    max_pairs,   \* the quota parameter of the run
    wd,          \* names present in the working directory
    dirs,        \* view directories present under the task directory
    files,       \* files[v]: names present in view directory v
    pc,          \* position of the driver / walker
    extracted_dir, \* the top-level name extract_tarfile returned
    h5_files,    \* what find_h5_files returned
    fileIdx,     \* position in h5_files
    trials,      \* the sorted trial keys of the open container
    trialIdx,    \* position in trials
    viewIdx,     \* position in rgb_views
    seen,        \* what the walker last read from the container
    exc,         \* the exception the walker's handler caught, "none" without
    cont,        \* what the last process_h5_file call returned
    opened,      \* history: the containers opened, in order
    visited,     \* history: the trials of the open container visited, in order
    nTrials,     \* trial keys read so far
    nValid,      \* valid streams read so far
    nFaults,     \* views on which an encoder failed so far
    rows,        \* the rows of the CSV file: [task, file], file the URL's basename
    parallel,    \* process_dataset's parallel flag
    rowPc,       \* rowPc[r]: position of the driver in row r
    rowTop,      \* rowTop[r]: the top-level name extract_tarfile returned for row r
    failed,      \* history: the rows whose exception handler ran
    calc,        \* a computation on its own: its arguments and, once made, its result
    indices,     \* the walker's local indices: the last sample it computed
    writer,      \* the cv2 writer of the view being encoded: codec tried, codec used, outcome
    call         \* history of a call made twice: what it read, where it started

vars == <<prog, max_pairs, wd, dirs, files, pc, extracted_dir, h5_files, fileIdx,
          trials, trialIdx, viewIdx, seen, exc, cont, opened, visited, nTrials,
          nValid, nFaults, rows, parallel, rowPc, rowTop, failed, calc, indices, writer, call>>

TarName == "task.tar.gz"

\* Top-level names an archive's members may have.
TopNames == {"A"}

NoDir == "none"

Nothing == [what |-> "nothing", shape |-> <<>>]

NoCalc == [op |-> "none"]

NoWriter == [avc1 |-> "none", fourcc |-> "none", isOpened |-> FALSE, raised |-> FALSE]

NoCall == [run |-> 0]

Read(what) == [what |-> what, shape |-> <<>>]

Stream(shape) == [what |-> "stream", shape |-> shape]

ForeignFiles(n) == {Foreign(i) : i \in 1..n}

\* The output tree before the row starts: not there yet, or there with n
\* files in each view directory, n within the quota.
InitTree ==
    \/ /\ dirs = {}
       /\ files = [v \in ViewNames |-> {}]
    \/ /\ dirs = ViewNames
       /\ \E n \in 0..(2 * max_pairs) :
              files = [v \in ViewNames |-> ForeignFiles(n)]

Init ==
    /\ prog \in {"processing", "prepare"}
    /\ max_pairs \in 1..MaxPairs
    /\ wd = {}
    /\ IF prog = "processing"
       THEN InitTree
       ELSE /\ max_pairs = 1
            /\ dirs \in {{}, ViewNames}
            /\ files = [v \in ViewNames |-> {}]
    /\ pc = "download"
    /\ extracted_dir = NoDir
    /\ h5_files = <<>>
    /\ fileIdx = 0
    /\ trials = <<>>
    /\ trialIdx = 0
    /\ viewIdx = 0
    /\ seen = Nothing
    /\ exc = "none"
    /\ cont = TRUE
    /\ opened = <<>>
    /\ visited = <<>>
    /\ nTrials = 0
    /\ nValid = 0
    /\ nFaults = 0
    /\ rows = <<>>
    /\ parallel = FALSE
    /\ rowPc = <<>>
    /\ rowTop = <<>>
    /\ failed = {}
    /\ calc = NoCalc
    /\ indices = <<>>
    /\ writer = NoWriter
    /\ call = NoCall

treeVars == <<dirs, files>>

loopVars == <<extracted_dir, h5_files, fileIdx, opened>>

walkVars == <<trials, trialIdx, viewIdx, seen, exc, visited, nTrials, nValid, nFaults, indices,
              writer>>

datasetVars == <<rows, parallel, rowPc, rowTop, failed>>

fixedVars == <<prog, max_pairs, datasetVars, calc>>

paramVars == <<fixedVars, call>>

\* ------------------------------------------------------------ the drivers
\* What a driver that leaves the view subfolders to the walker would give.
EnsureNoDirs == dirs' = dirs

\* ensure_dir for the four view subfolders
EnsureViewDirs == dirs' = dirs \cup {view_dirs[i] : i \in 1..Len(view_dirs)}

\* download_file(url, tar_path): the request fails before the file is opened,
\* the stream breaks after it was opened, or the archive is complete.
\* prepare_Autonomous creates the view subfolders before it downloads.
Download ==
    /\ pc = "download"
    /\ IF prog = "prepare" THEN EnsureViewDirs ELSE dirs' = dirs
    /\ \/ /\ wd' = wd
          /\ pc' = "except"
       \/ /\ wd' = wd \cup {TarName}
          /\ pc' = "except"
       \/ /\ wd' = wd \cup {TarName}
          /\ pc' = IF prog = "processing" THEN "tar_start" ELSE "extract"
    /\ UNCHANGED <<paramVars, files, loopVars, walkVars, cont>>

\* process_tarfile: ensure_dir(output_folder) and the four view subfolders
TarStart ==
    /\ pc = "tar_start"
    /\ prog = "processing"
    /\ EnsureViewDirs
    /\ pc' = "extract"
    /\ UNCHANGED <<paramVars, wd, files, loopVars, walkVars, cont>>

\* extract_tarfile: extractall writes the members below the working
\* directory; the name returned is the first of the set of top-level names,
\* None when the archive has no member.  A damaged archive raises, before
\* or after some members were written.
Extract ==
    /\ pc = "extract"
    /\ \/ \E top \in SUBSET TopNames :
              /\ wd' = wd \cup top
              /\ pc' = "except"
              /\ UNCHANGED extracted_dir
       \/ /\ wd' = wd
          /\ extracted_dir' = NoDir
          /\ pc' = "done"
       \/ \E top \in (SUBSET TopNames) \ {{}} : \E d \in top :
              /\ extracted_dir' = d
              /\ IF prog = "processing"
                 THEN wd' = wd \cup top
                 ELSE wd' = (wd \cup top) \ {TarName}
              /\ pc' = "find"
    /\ UNCHANGED <<paramVars, treeVars, h5_files, fileIdx, opened, walkVars, cont>>

\* find_h5_files, and the head of the loop over its result
Find ==
    /\ pc = "find"
    /\ \E l \in H5Lists :
          /\ h5_files' = l
          /\ IF Len(l) = 0
             THEN pc' = "rmtree" /\ fileIdx' = 0
             ELSE pc' = "open" /\ fileIdx' = 1
    /\ UNCHANGED <<paramVars, wd, treeVars, extracted_dir, opened, walkVars, cont>>

\* if not cont: break
StopLoopNever(c) == FALSE

StopLoop(c) == ~c

\* The loop over h5_files after a process_h5_file call returned; the call's
\* locals are gone.  prepare_Autonomous ignores what the call returns.
AfterReturn ==
    /\ pc = "ret"
    /\ IF (prog = "processing" /\ StopLoop(cont)) \/ fileIdx >= Len(h5_files)
       THEN pc' = "rmtree" /\ fileIdx' = fileIdx
       ELSE pc' = "open" /\ fileIdx' = fileIdx + 1
    /\ trials' = <<>>
    /\ trialIdx' = 0
    /\ viewIdx' = 0
    /\ seen' = Nothing
    /\ visited' = <<>>
    /\ indices' = <<>>
    /\ UNCHANGED <<paramVars, wd, treeVars, extracted_dir, h5_files, opened, exc, nTrials, writer,
                   nValid, nFaults, cont>>

\* shutil.rmtree(extracted_path): it raises when the top-level entry is a
\* regular file or cannot be removed.
Rmtree ==
    /\ pc = "rmtree"
    /\ \/ /\ wd' = wd \ {extracted_dir}
          /\ pc' = IF prog = "processing" THEN "rmtar" ELSE "done"
       \/ /\ wd' = wd
          /\ pc' = "except"
    /\ UNCHANGED <<paramVars, treeVars, loopVars, walkVars, cont>>

\* if os.path.exists(tar_path): os.remove(tar_path)
RemoveTar ==
    /\ pc = "rmtar"
    /\ wd' = wd \ {TarName}
    /\ pc' = "done"
    /\ UNCHANGED <<paramVars, treeVars, loopVars, walkVars, cont>>

\* except Exception: if os.path.exists(tar_path): os.remove(tar_path)
RowExcept ==
    /\ pc = "except"
    /\ wd' = wd \ {TarName}
    /\ pc' = "done"
    /\ UNCHANGED <<paramVars, treeVars, loopVars, walkVars, cont>>

\* ------------------------------------------------------------ the walkers
view == rgb_views[viewIdx]

view_name == ViewName(view)

trial == trials[trialIdx]

base_filename == BaseFilename(h5_files[fileIdx])

\* What numbering the clips of a folder by the files it holds would give.
video_name_by_count ==
    OutName(base_filename, <<Cardinality(files[view_name])>>, view_name, "mp4")

video_name == OutName(base_filename, trial, view_name, "mp4")

\* What a JSON file named like the video would be.
json_name_as_video == OutName(base_filename, trial, view_name, "mp4")

json_name == OutName(base_filename, trial, view_name, "json")

\* A call made a second time on the same container reads, place by place,
\* what the first call read; past what the first call read it reads anything.
Replays(o) == (call.run = 2 /\ call.pos <= Len(call.tape)) => call.tape[call.pos] = o

\* The history of the call after it read o.
Noted(o) ==
    CASE call.run = 1 -> [call EXCEPT !.tape = Append(@, o)]
      [] call.run = 2 -> [call EXCEPT !.pos = @ + 1]
      [] OTHER -> call

\* The history of the call after it read the valid stream o of view v of trial t.
NotedValid(o, t, v) ==
    IF call.run = 0 THEN call
    ELSE [Noted(o) EXCEPT !.valid = @ \cup {<<t, v>>}]

Keys(keys) == [what |-> "keys", keys |-> keys]

\* The shapes a container's streams have: any of Shapes; in a container that
\* is walked twice, one that passes validation and one that fails it.
ReadShapes ==
    IF call.run = 0 THEN Shapes ELSE {<<50, 64, 64, 3>>, <<30, 64, 64, 4>>}

\* with h5py.File(h5_path, 'r') as file: trials = sorted(...).  Opening
\* raises for a file that is no container; int() raises for a key that
\* contains 'Trial' and is no number.
H5Open ==
    /\ pc = "open"
    /\ opened' = Append(opened, h5_files[fileIdx])
    /\ visited' = <<>>
    /\ seen' = Nothing
    /\ viewIdx' = 0
    /\ indices' = <<>>
    /\ \/ /\ Replays(Read("openfail"))
          /\ call' = Noted(Read("openfail"))
          /\ pc' = "h5_except"
          /\ exc' = "open"
          /\ trials' = <<>>
          /\ trialIdx' = 0
          /\ nTrials' = nTrials
       \/ \E keys \in KeySets(MaxTrials - nTrials) :
              /\ Replays(Keys(keys))
              /\ call' = Noted(Keys(keys))
              /\ nTrials' = nTrials + NumTrialKeys(keys)
              /\ IF KeyUnparsable(keys)
                 THEN /\ pc' = "h5_except"
                      /\ exc' = "key"
                      /\ trials' = <<>>
                      /\ trialIdx' = 0
                 ELSE /\ pc' = "trial"
                      /\ exc' = "none"
                      /\ trials' = SortedTrials(keys)
                      /\ trialIdx' = 1
    /\ UNCHANGED <<fixedVars, wd, treeVars, extracted_dir, h5_files, fileIdx, cont, nValid, nFaults,
                   writer>>

\* for trial in trials: if 'data' not in file[trial]: continue.  When the
\* loop is over the quota-aware walker returns True, the simple one returns.
H5Trial ==
    /\ pc = "trial"
    /\ IF trialIdx > Len(trials)
       THEN /\ pc' = "ret"
            /\ cont' = TRUE
            /\ seen' = Nothing
            /\ UNCHANGED <<viewIdx, visited, trialIdx, call>>
       ELSE /\ visited' = Append(visited, trial)
            /\ cont' = cont
            /\ \/ /\ Replays(Read("nodata"))
                  /\ call' = Noted(Read("nodata"))
                  /\ seen' = Read("nodata")
                  /\ trialIdx' = trialIdx + 1
                  /\ pc' = "trial"
                  /\ viewIdx' = 0
               \/ /\ Replays(Read("data"))
                  /\ call' = Noted(Read("data"))
                  /\ seen' = Read("data")
                  /\ trialIdx' = trialIdx
                  /\ pc' = "view"
                  /\ viewIdx' = 1
    /\ UNCHANGED <<fixedVars, wd, treeVars, loopVars, trials, exc, nTrials, nValid, nFaults, indices,
                   writer>>

\* What one quota for the four view folders together would give.
QuotaReachedAnywhere(existing_files) ==
    \E i \in 1..Len(rgb_views) :
        Cardinality(files[ViewName(rgb_views[i])]) >= 2 * max_pairs

\* len(existing_files) >= 2 * max_pairs
QuotaReached(existing_files) == Cardinality(existing_files) >= 2 * max_pairs

\* The views of a trial are over: the quota-aware walker checks the global
\* stop condition, the simple one goes to the next trial.
ViewsDone ==
    /\ IF prog = "processing"
       THEN pc' = "check" /\ trialIdx' = trialIdx
       ELSE pc' = "trial" /\ trialIdx' = trialIdx + 1
    /\ UNCHANGED <<treeVars, viewIdx, seen, exc, nValid, indices, call>>

NextView ==
    /\ pc' = "view"
    /\ viewIdx' = viewIdx + 1
    /\ trialIdx' = trialIdx
    /\ exc' = exc

\* One view of the trial, up to the decision to produce it: the key is
\* absent, reading the stream raises, the stream fails validation, or it is
\* sampled; then the quota-aware walker makes sure the view folder exists and
\* lists it.
H5View ==
    /\ pc = "view"
    /\ IF viewIdx > Len(rgb_views)
       THEN ViewsDone
       ELSE \/ /\ Replays(Read("absent"))
               /\ call' = Noted(Read("absent"))
               /\ seen' = Read("absent")
               /\ NextView
               /\ UNCHANGED <<treeVars, nValid, indices>>
            \/ /\ Replays(Read("raised"))
               /\ call' = Noted(Read("raised"))
               /\ seen' = Read("raised")
               /\ pc' = "h5_except"
               /\ exc' = "read"
               /\ UNCHANGED <<treeVars, nValid, viewIdx, trialIdx, indices>>
            \/ \E shape \in ReadShapes :
                  /\ Replays(Stream(shape))
                  /\ seen' = Stream(shape)
                  /\ IF ~ShapeValid(shape)
                     THEN /\ call' = Noted(Stream(shape))
                          /\ NextView
                          /\ UNCHANGED <<treeVars, nValid, indices>>
                     ELSE /\ nValid < MaxValid
                          /\ nValid' = nValid + 1
                          /\ call' = NotedValid(Stream(shape), trial, view_name)
                          /\ indices' = Linspace(shape[1], frame_count)
                          /\ files' = files
                          /\ IF prog = "processing"
                             THEN /\ dirs' = dirs \cup {view_name}
                                  /\ IF QuotaReached(files[view_name])
                                     THEN NextView
                                     ELSE /\ pc' = "imageio"
                                          /\ UNCHANGED <<viewIdx, trialIdx, exc>>
                             ELSE /\ dirs' = dirs
                                  /\ pc' = "opencv"
                                  /\ UNCHANGED <<viewIdx, trialIdx, exc>>
    /\ UNCHANGED <<fixedVars, wd, loopVars, trials, visited, nTrials, nFaults, cont, writer>>

\* save_video_with_imageio: it catches what the writer raises and returns
\* False; the file may have been created by then.
H5Imageio ==
    /\ pc = "imageio"
    /\ dirs' = dirs
    /\ \/ /\ files' = [files EXCEPT ![view_name] = @ \cup {video_name}]
          /\ pc' = "json"
          /\ nFaults' = nFaults
       \/ /\ nFaults < MaxFaults
          /\ nFaults' = nFaults + 1
          /\ files' = [files EXCEPT ![view_name] = @ \cup {video_name}]
          /\ pc' = "opencv"
       \/ /\ nFaults < MaxFaults
          /\ nFaults' = nFaults + 1
          /\ files' = files
          /\ pc' = "opencv"
    /\ UNCHANGED <<paramVars, wd, loopVars, trials, trialIdx, viewIdx, seen, exc, visited,
                   nTrials, nValid, cont, indices, writer>>

\* What a fallback that changes codec only when the avc1 writer raised would give.
UseMp4vOnRaise(avc1) == avc1 = "raised"

\* if not video.isOpened(): mp4v; except: mp4v
UseMp4v(avc1) == avc1 \in {"closed", "raised"}

\* What cv2.VideoWriter(video_path, avc1, ...) does: it gives a writer that
\* is open, one that is not, or it raises; the simple walker does not try avc1.
Avc1Outcomes ==
    IF prog = "processing" THEN {"opened", "closed", "raised"} ELSE {"none"}

\* The codec of the writer the frames are handed to.
fourcc(avc1) ==
    IF prog = "prepare" \/ UseMp4v(avc1) THEN "mp4v" ELSE "avc1"

\* The cv2.VideoWriter path (the fallback of the quota-aware walker, the only
\* encoder of the simple one).  A writer that opened has created the file; one
\* that did not open drops the frames silently.  cv2.resize and cv2.cvtColor
\* raise on frames they do not take.  A view folder that is not there makes
\* the writer fail to open.
H5OpenCV ==
    /\ pc = "opencv"
    /\ dirs' = dirs
    /\ \E avc1 \in Avc1Outcomes, isOpened \in BOOLEAN, raised \in BOOLEAN :
          /\ isOpened => view_name \in dirs
          /\ fourcc(avc1) = "avc1" => (isOpened <=> avc1 = "opened")
          /\ writer' = [avc1 |-> avc1, fourcc |-> fourcc(avc1), isOpened |-> isOpened,
                        raised |-> raised]
          /\ IF prog = "prepare" /\ (~isOpened \/ raised)
             THEN nFaults < MaxFaults /\ nFaults' = nFaults + 1
             ELSE nFaults' = nFaults
          /\ files' = IF isOpened
                      THEN [files EXCEPT ![view_name] = @ \cup {video_name}]
                      ELSE files
          /\ pc' = IF raised THEN "h5_except" ELSE "json"
          /\ exc' = IF raised THEN "encode" ELSE exc
    /\ UNCHANGED <<paramVars, wd, loopVars, trials, trialIdx, viewIdx, seen, visited,
                   nTrials, nValid, cont, indices>>

\* with open(json_path, 'w') as json_file: json.dump(...).  Opening raises when
\* the view folder is not there.
H5Json ==
    /\ pc = "json"
    /\ dirs' = dirs
    /\ IF view_name \in dirs
       THEN /\ files' = [files EXCEPT ![view_name] = @ \cup {json_name}]
            /\ NextView
       ELSE /\ files' = files
            /\ pc' = "h5_except"
            /\ exc' = "json"
            /\ UNCHANGED <<viewIdx, trialIdx>>
    /\ writer' = NoWriter
    /\ UNCHANGED <<paramVars, wd, loopVars, trials, seen, visited, nTrials, nValid, nFaults, cont,
                   indices>>

\* What a check with > instead of < ... break would give.
AllDoneStrict == \A i \in 1..Len(rgb_views) :
    Cardinality(files[ViewName(rgb_views[i])]) > 2 * max_pairs

\* all_done: no view folder lists fewer than 2 * max_pairs names
AllDone == \A i \in 1..Len(rgb_views) :
    ~(Cardinality(files[ViewName(rgb_views[i])]) < 2 * max_pairs)

\* The global stop condition after the views of a trial; os.listdir raises
\* for a view folder that is not there.
H5Check ==
    /\ pc = "check"
    /\ IF \E i \in 1..Len(rgb_views) : ViewName(rgb_views[i]) \notin dirs
       THEN /\ pc' = "h5_except"
            /\ exc' = "listdir"
            /\ UNCHANGED <<trialIdx, cont>>
       ELSE /\ exc' = exc
            /\ IF AllDone
               THEN /\ pc' = "ret"
                    /\ cont' = FALSE
                    /\ trialIdx' = trialIdx
               ELSE /\ pc' = "trial"
                    /\ cont' = cont
                    /\ trialIdx' = trialIdx + 1
    /\ UNCHANGED <<paramVars, wd, treeVars, loopVars, trials, viewIdx, seen, visited, nTrials, nValid,
                   nFaults, indices, writer>>

ExceptReturnFalse == FALSE

\* except Exception as e: ... return True
ExceptReturn == TRUE

H5Except ==
    /\ pc = "h5_except"
    /\ pc' = "ret"
    /\ cont' = IF prog = "processing" THEN ExceptReturn ELSE cont
    /\ writer' = NoWriter
    /\ UNCHANGED <<paramVars, wd, treeVars, loopVars, trials, trialIdx, viewIdx, seen, exc, visited,
                   nTrials, nValid, nFaults, indices>>

\* ------------------------------------------------ one container, walked twice
\* process_h5_file of processing.py called on one container of an extracted
\* tree, the view folders made by process_tarfile and holding any number of
\* files within the quota, and called once more with the same arguments when
\* it returned.  No encoder fails in either call: imageio writes every video.
InitCall ==
    /\ prog = "processing"
    /\ max_pairs \in 1..MaxCallPairs
    /\ wd = TopNames
    /\ dirs = ViewNames
    /\ \E n \in 0..(2 * max_pairs) : files = [v \in ViewNames |-> ForeignFiles(n)]
    /\ pc = "open"
    /\ extracted_dir \in TopNames
    /\ h5_files = <<H5Paths[1]>>
    /\ fileIdx = 1
    /\ trials = <<>>
    /\ trialIdx = 0
    /\ viewIdx = 0
    /\ seen = Nothing
    /\ exc = "none"
    /\ cont = TRUE
    /\ opened = <<>>
    /\ visited = <<>>
    /\ nTrials = 0
    /\ nValid = 0
    /\ nFaults = MaxFaults
    /\ rows = <<>>
    /\ parallel = FALSE
    /\ rowPc = <<>>
    /\ rowTop = <<>>
    /\ failed = {}
    /\ calc = NoCalc
    /\ indices = <<>>
    /\ writer = NoWriter
    /\ call = [run |-> 1, tape |-> <<>>, pos |-> 1, valid |-> {}, start |-> files,
               first |-> [files |-> files, cont |-> TRUE, exc |-> "none"]]

\* The second call: the locals are new, the folders are as the first call
\* left them.
Rerun ==
    /\ pc = "ret"
    /\ call.run = 1
    /\ call' = [call EXCEPT !.run = 2, !.pos = 1, !.valid = {}, !.start = files,
                            !.first = [files |-> files, cont |-> cont, exc |-> exc]]
    /\ pc' = "open"
    /\ trials' = <<>>
    /\ trialIdx' = 0
    /\ viewIdx' = 0
    /\ seen' = Nothing
    /\ exc' = "none"
    /\ visited' = <<>>
    /\ indices' = <<>>
    /\ nTrials' = 0
    /\ nValid' = 0
    /\ UNCHANGED <<fixedVars, wd, treeVars, loopVars, nFaults, cont, writer>>

NextCall ==
    \/ H5Open
    \/ H5Trial
    \/ H5View
    \/ H5Imageio
    \/ H5Json
    \/ H5Check
    \/ H5Except
    \/ Rerun

SpecCall == InitCall /\ [][NextCall]_vars

\* ------------------------------------------------------------ one dataset row
Next ==
    \/ Download
    \/ TarStart
    \/ Extract
    \/ Find
    \/ AfterReturn
    \/ Rmtree
    \/ RemoveTar
    \/ RowExcept
    \/ H5Open
    \/ H5Trial
    \/ H5View
    \/ H5Imageio
    \/ H5OpenCV
    \/ H5Json
    \/ H5Check
    \/ H5Except

Spec == Init /\ [][Next]_vars

\* One row of download.py with max_pairs = MaxCallPairs: a folder takes the
\* clips of more than one container.
InitTar ==
    /\ prog = "processing"
    /\ max_pairs = MaxCallPairs
    /\ wd = {}
    /\ InitTree
    /\ pc = "download"
    /\ extracted_dir = NoDir
    /\ h5_files = <<>>
    /\ fileIdx = 0
    /\ trials = <<>>
    /\ trialIdx = 0
    /\ viewIdx = 0
    /\ seen = Nothing
    /\ exc = "none"
    /\ cont = TRUE
    /\ opened = <<>>
    /\ visited = <<>>
    /\ nTrials = 0
    /\ nValid = 0
    /\ nFaults = 0
    /\ rows = <<>>
    /\ parallel = FALSE
    /\ rowPc = <<>>
    /\ rowTop = <<>>
    /\ failed = {}
    /\ calc = NoCalc
    /\ indices = <<>>
    /\ writer = NoWriter
    /\ call = NoCall

SpecTar == InitTar /\ [][Next]_vars

\* ------------------------------------------------------- the dataset drivers
\* process_dataset over the rows of the CSV file: download.py one row after
\* the other or in a pool of worker processes, prepare_Autonomous.py one row
\* after the other.  The rows share the working directory: tar_path is
\* './' + os.path.basename(url).  The walk of a row's containers is one step
\* here; its steps are those of Spec.
\* A task name is the sequence of its characters.  \w takes letters, digits
\* and '_'.
WordChars == {"a", "b", "_"}

\* re.sub(r'[^\w\-\.]', '_', name)
sanitize_filename(name) ==
    [i \in 1..Len(name) |->
        IF name[i] \in WordChars \cup {"-", "."} THEN name[i] ELSE "_"]

\* The task names of the CSV file: 'a b', 'a_b' and 'b'.
RowTasks == {<<"a", " ", "b">>, <<"a", "_", "b">>, <<"b">>}

\* The basename of a URL that ends with '/': tar_path is then './', the
\* working directory itself.
Cwd == ""

RowFiles == {"a.tar.gz", "b.tar.gz", Cwd}

RowSet == {[task |-> t, file |-> f] : t \in RowTasks, f \in RowFiles}

RowLists == UNION {[1..n -> RowSet] : n \in 1..MaxRows}

InitDataset ==
    /\ prog \in {"processing", "prepare"}
    /\ parallel \in (IF prog = "processing" THEN BOOLEAN ELSE {FALSE})
    /\ rows \in RowLists
    /\ rowPc = [r \in 1..Len(rows) |-> "pending"]
    /\ rowTop = [r \in 1..Len(rows) |-> NoDir]
    /\ failed = {}
    /\ wd = {}
    /\ max_pairs = 1
    /\ dirs = {}
    /\ files = [v \in ViewNames |-> {}]
    /\ pc = "dataset"
    /\ extracted_dir = NoDir
    /\ h5_files = <<>>
    /\ fileIdx = 0
    /\ trials = <<>>
    /\ trialIdx = 0
    /\ viewIdx = 0
    /\ seen = Nothing
    /\ exc = "none"
    /\ cont = TRUE
    /\ opened = <<>>
    /\ visited = <<>>
    /\ nTrials = 0
    /\ nValid = 0
    /\ nFaults = 0
    /\ calc = NoCalc
    /\ indices = <<>>
    /\ writer = NoWriter
    /\ call = NoCall

rowFixed == <<prog, max_pairs, rows, parallel, treeVars, pc, loopVars, walkVars, cont, calc, call>>

Running(r) == rowPc[r] \notin {"pending", "done", "raised", "cancelled"}

\* The first row whose call raised, when the calls before it returned: what
\* the loop over the items, or the iteration over executor.map's results,
\* runs into.
Aborted ==
    \E r \in 1..Len(rows) :
        rowPc[r] = "raised" /\ \A q \in 1..(r - 1) : rowPc[q] = "done"

\* for item in items: the next call starts when the one before returned.
\* executor.map: the items are handed out in their order, to at most
\* max_workers processes at a time.
CanStart(r) ==
    IF parallel
    THEN /\ \A q \in 1..(r - 1) : rowPc[q] # "pending"
         /\ Cardinality({q \in 1..Len(rows) : Running(q)}) < MaxWorkers
    ELSE \A q \in 1..(r - 1) : rowPc[q] = "done"

RowAt(r, p) == rowPc' = [rowPc EXCEPT ![r] = p]

\* task_dir = os.path.join(base_dir, sanitize_filename(task_name))
task_dir(r) == sanitize_filename(rows[r].task)

\* Row r's call has extracted its archive and not yet removed the tree:
\* extracted_path = os.path.join(".", extracted_dir)
HasTree(r) == rowPc[r] \in {"walk", "rmtree"}

\* os.path.exists(tar_path)
Exists(name) == name = Cwd \/ name \in wd

\* download_file(url, tar_path) for row r: the request fails before the file
\* is opened, the stream breaks after it was opened, or the archive is
\* complete.  open('./', 'wb') raises.
DsDownload(r) ==
    /\ rowPc[r] = "pending"
    /\ CanStart(r)
    /\ IF rows[r].file = Cwd
       THEN /\ wd' = wd
            /\ RowAt(r, "except")
       ELSE \/ /\ wd' = wd
               /\ RowAt(r, "except")
            \/ /\ wd' = wd \cup {rows[r].file}
               /\ RowAt(r, "except")
            \/ /\ wd' = wd \cup {rows[r].file}
               /\ RowAt(r, "extract")
    /\ UNCHANGED <<rowFixed, rowTop, failed>>

\* extract_tarfile(tar_path) for row r; tarfile.open raises when the archive
\* is not there.
DsExtract(r) ==
    /\ rowPc[r] = "extract"
    /\ IF rows[r].file \notin wd
       THEN /\ wd' = wd
            /\ RowAt(r, "except")
            /\ rowTop' = rowTop
       ELSE \/ \E top \in SUBSET TopNames :
                  /\ wd' = wd \cup top
                  /\ RowAt(r, "except")
                  /\ rowTop' = rowTop
            \/ /\ wd' = wd
               /\ RowAt(r, "done")
               /\ rowTop' = rowTop
            \/ \E top \in (SUBSET TopNames) \ {{}} : \E d \in top :
                  /\ rowTop' = [rowTop EXCEPT ![r] = d]
                  /\ IF prog = "processing"
                     THEN wd' = wd \cup top
                     ELSE wd' = (wd \cup top) \ {rows[r].file}
                  /\ RowAt(r, "walk")
    /\ UNCHANGED <<rowFixed, failed>>

\* find_h5_files and the loop over process_h5_file, which catches what its
\* container raises
DsWalk(r) ==
    /\ rowPc[r] = "walk"
    /\ RowAt(r, "rmtree")
    /\ UNCHANGED <<rowFixed, wd, rowTop, failed>>

\* shutil.rmtree(extracted_path) for row r: it raises when the tree is not
\* there, is a regular file or cannot be removed.
DsRmtree(r) ==
    /\ rowPc[r] = "rmtree"
    /\ \/ /\ rowTop[r] \in wd
          /\ wd' = wd \ {rowTop[r]}
          /\ RowAt(r, IF prog = "processing" THEN "rmtar" ELSE "done")
       \/ /\ wd' = wd
          /\ RowAt(r, "except")
    /\ UNCHANGED <<rowFixed, rowTop, failed>>

\* process_tarfile: if os.path.exists(tar_path):
DsTarExists(r) ==
    /\ rowPc[r] = "rmtar"
    /\ RowAt(r, IF Exists(rows[r].file) THEN "rmtar_rm" ELSE "done")
    /\ UNCHANGED <<rowFixed, wd, rowTop, failed>>

\* process_tarfile: os.remove(tar_path); it raises when another row's call
\* removed the file since the test.
DsRemoveTar(r) ==
    /\ rowPc[r] = "rmtar_rm"
    /\ IF rows[r].file \in wd
       THEN wd' = wd \ {rows[r].file} /\ RowAt(r, "done")
       ELSE wd' = wd /\ RowAt(r, "except")
    /\ UNCHANGED <<rowFixed, rowTop, failed>>

\* except Exception as e: print(...); if os.path.exists(tar_path):
\* Without the file the handler is over: the row's call returns
\* (download.py), the loop continues (prepare_Autonomous.py).
DsExcept(r) ==
    /\ rowPc[r] = "except"
    /\ failed' = failed \cup {r}
    /\ RowAt(r, IF Exists(rows[r].file) THEN "except_rm" ELSE "done")
    /\ UNCHANGED <<rowFixed, wd, rowTop>>

\* The handler's os.remove(tar_path): it raises IsADirectoryError for './'
\* and FileNotFoundError when another row's call removed the file since the
\* test; nothing catches what a handler raises.
DsExceptRemove(r) ==
    /\ rowPc[r] = "except_rm"
    /\ IF rows[r].file \in wd
       THEN wd' = wd \ {rows[r].file} /\ RowAt(r, "done")
       ELSE wd' = wd /\ RowAt(r, "raised")
    /\ UNCHANGED <<rowFixed, rowTop, failed>>

\* executor.map's result iterator runs into the call that raised and cancels
\* the calls that have not started.
DsCancel(r) ==
    /\ parallel
    /\ Aborted
    /\ rowPc[r] = "pending"
    /\ RowAt(r, "cancelled")
    /\ UNCHANGED <<rowFixed, wd, rowTop, failed>>

NextDataset ==
    \/ \E r \in 1..Len(rows) : DsDownload(r)
    \/ \E r \in 1..Len(rows) : DsExtract(r)
    \/ \E r \in 1..Len(rows) : DsWalk(r)
    \/ \E r \in 1..Len(rows) : DsRmtree(r)
    \/ \E r \in 1..Len(rows) : DsTarExists(r)
    \/ \E r \in 1..Len(rows) : DsRemoveTar(r)
    \/ \E r \in 1..Len(rows) : DsExcept(r)
    \/ \E r \in 1..Len(rows) : DsExceptRemove(r)
    \/ \E r \in 1..Len(rows) : DsCancel(r)

SpecDataset == InitDataset /\ [][NextDataset]_vars

\* ------------------------------------------------- the sampler on its own
\* The variables of the drivers and walkers, at rest.
Quiet ==
    /\ prog = "processing"
    /\ max_pairs = 1
    /\ wd = {}
    /\ dirs = {}
    /\ files = [v \in ViewNames |-> {}]
    /\ pc = "calc"
    /\ extracted_dir = NoDir
    /\ h5_files = <<>>
    /\ fileIdx = 0
    /\ trials = <<>>
    /\ trialIdx = 0
    /\ viewIdx = 0
    /\ seen = Nothing
    /\ exc = "none"
    /\ cont = TRUE
    /\ opened = <<>>
    /\ visited = <<>>
    /\ nTrials = 0
    /\ nValid = 0
    /\ nFaults = 0
    /\ rows = <<>>
    /\ parallel = FALSE
    /\ rowPc = <<>>
    /\ rowTop = <<>>
    /\ failed = {}
    /\ indices = <<>>
    /\ writer = NoWriter
    /\ call = NoCall

quietVars == <<prog, max_pairs, wd, treeVars, pc, loopVars, walkVars, cont, datasetVars, call>>

\* A stream that passed validation: total_frames >= frame_count.
InitSampler ==
    /\ Quiet
    /\ \E n \in 2..MaxCount : \E t \in n..MaxTotal :
          calc = [op |-> "frames", total_frames |-> t, frame_count |-> n]

SampleFrames ==
    /\ calc.op = "frames"
    /\ calc' = [op |-> "indices", total_frames |-> calc.total_frames,
                frame_count |-> calc.frame_count,
                indices |-> Linspace(calc.total_frames, calc.frame_count)]
    /\ UNCHANGED quietVars

SpecSampler == InitSampler /\ [][SampleFrames]_vars

\* ------------------------------------------- the frame size on its own
\* new_width = ((width + 15) // 16) * 16, the same for the height
RoundUp16(d) == ((d + 15) \div 16) * 16

\* if width % 2 == 1: width -= 1, the same for the height
RoundDownEven(d) == IF d % 2 = 1 THEN d - 1 ELSE d

InitDims ==
    /\ Quiet
    /\ \E w \in 1..MaxDim, h \in 1..MaxDim :
          calc = [op |-> "frame", width |-> w, height |-> h]

Sized(op, new_width, new_height) ==
    [op |-> op, width |-> calc.width, height |-> calc.height,
     new_width |-> new_width, new_height |-> new_height]

\* adjust_dimensions_to_multiple_of_16: the frames go to the imageio writer
\* as they are when both sizes are multiples of 16, resized otherwise.
AdjustDimensions ==
    /\ calc.op = "frame"
    /\ LET new_width == RoundUp16(calc.width)
           new_height == RoundUp16(calc.height)
       IN calc' = IF calc.width = new_width /\ calc.height = new_height
                  THEN Sized("imageio", calc.width, calc.height)
                  ELSE Sized("imageio", new_width, new_height)
    /\ UNCHANGED quietVars

\* The OpenCV fallback of the quota-aware walker: the writer is made for, and
\* every frame resized to, (new_width, new_height).
FallbackDimensions ==
    /\ calc.op = "frame"
    /\ calc' = Sized("opencv", RoundUp16(calc.width), RoundUp16(calc.height))
    /\ UNCHANGED quietVars

\* The simple walker: the writer is made for, and the frames that differ
\* resized to, the sizes made even.
EvenDimensions ==
    /\ calc.op = "frame"
    /\ calc' = Sized("simple", RoundDownEven(calc.width), RoundDownEven(calc.height))
    /\ UNCHANGED quietVars

NextDims ==
    \/ AdjustDimensions
    \/ FallbackDimensions
    \/ EvenDimensions

SpecDims == InitDims /\ [][NextDims]_vars

\* ------------------------------------------------------------------ claims
Count(v) == Cardinality(files[v])

Quota == 2 * max_pairs

AllFull == \A v \in ViewNames : Count(v) >= Quota

WithExt(f, ext) == [f EXCEPT !.ext = ext]

\* C1: after every return of the quota-aware process_h5_file each view
\* directory holds at most 2 x max_pairs files, whatever count within the
\* quota it started from.
QuotaEnforced ==
    (prog = "processing" /\ pc = "ret") => \A v \in ViewNames : Count(v) <= Quota

\* C2: after a call of process_h5_file returns, every video file of a view
\* directory has the JSON file of the same base name beside it, and every
\* JSON file its video file.
PairingInvariant ==
    pc = "ret" =>
        \A v \in ViewNames : \A f \in files[v] :
            /\ f.ext = "mp4" => WithExt(f, "json") \in files[v]
            /\ f.ext = "json" => WithExt(f, "mp4") \in files[v]

\* C3: when the four views of a trial are done and every view directory
\* holds at least 2 x max_pairs files, the quota-aware walker returns False
\* at once: no further trial is visited, nothing more is produced.
SaturationShortCircuit ==
    [][(pc = "check" /\ AllFull) =>
          (pc' = "ret" /\ cont' = FALSE /\ visited' = visited /\ files' = files)]_vars

SaturatedBeforeLastTrial ==
    /\ pc = "ret"
    /\ cont = FALSE
    /\ trialIdx < Len(trials)
    /\ \A v \in ViewNames : OutName(base_filename, trial, v, "mp4") \in files[v]

\* C4: process_tarfile opens the located files in the order find_h5_files
\* gave them, each at most once, and opens none after a call returned False.
DriverStopsOnSaturation ==
    [][/\ opened' = SubSeq(h5_files', 1, Len(opened'))
       /\ (prog = "processing" /\ ~cont) => opened' = opened]_vars

StoppedWithFilesLeft ==
    /\ pc = "done"
    /\ prog = "processing"
    /\ ~cont
    /\ Len(opened) < Len(h5_files)

\* C5: the trials of a container are visited in strictly increasing numeric
\* index (Trial2 before Trial10), each at most once, by both walkers.
TrialOrder ==
    \A i, j \in 1..Len(visited) : i < j => IntOf(visited[i]) < IntOf(visited[j])

Trial2ThenTrial10 == visited = <<(<<2>>), (<<1, 0>>)>>

\* C6: in the quota-aware walker an encoder failure for a view never ends
\* the walk of the container: after the primary or the fallback encoder ran,
\* the walker goes on with that view's fallback or JSON file.
ViewFaultIsolation ==
    [][(prog = "processing" /\ pc \in {"imageio", "opencv"}) =>
          pc' \in {"opencv", "json"}]_vars

\* C7: an exception while opening or walking a container is caught in
\* process_h5_file, which returns True, and process_tarfile goes on: unless
\* the view directories are all full, every located file has been opened when
\* the loop is over.
WholeFileFaultIsolation ==
    /\ (prog = "processing" /\ pc = "ret" /\ exc # "none") => cont = TRUE
    /\ (pc = "rmtree" /\ ~AllFull) => opened = h5_files

SiblingOpenedAfterFailure ==
    /\ prog = "processing"
    /\ pc = "open"
    /\ fileIdx = 2
    /\ exc # "none"

\* C8: a trial without a data group, an absent view key and a stream that
\* fails validation (rank not 4, channels not 3, fewer frames than
\* frame_count) are skipped: nothing is raised, no file or directory is created
\* or changed, and the walker is at the next trial or view.
FailsValidation(shape) ==
    IF Len(shape) # 4 THEN TRUE ELSE shape[4] # 3 \/ shape[1] < frame_count

SkipNotError ==
    [][/\ (pc = "trial" /\ trialIdx <= Len(trials) /\ seen'.what = "nodata") =>
             /\ pc' = "trial" /\ trialIdx' = trialIdx + 1
             /\ files' = files /\ dirs' = dirs /\ wd' = wd /\ exc' = exc
       /\ (pc = "view" /\ viewIdx <= 4
             /\ (seen'.what = "absent"
                   \/ (seen'.what = "stream" /\ FailsValidation(seen'.shape)))) =>
             /\ pc' = "view" /\ viewIdx' = viewIdx + 1 /\ trialIdx' = trialIdx
             /\ files' = files /\ dirs' = dirs /\ wd' = wd /\ exc' = exc]_vars

FourChannelStreamSkipped ==
    /\ pc = "view"
    /\ viewIdx = 2
    /\ seen = Stream(<<30, 64, 64, 4>>)
    /\ \A v \in ViewNames : files[v] = {}

\* C9: when the driver is done with a row, neither the archive nor anything
\* extracted from it is left in the working directory.
CleanupRegardless == pc = "done" => wd = {}

\* C10: an exception in a row's download, extraction or walk is caught: the
\* handler removes the row's archive and the row's call ends normally, and as
\* long as a row is waiting the batch can go on, in the sequential and in the
\* parallel mode.
RowFaultIsolation ==
    /\ [][\A r \in 1..Len(rows) :
            (rowPc[r] \in {"except", "except_rm"}
                /\ rowPc'[r] \notin {"except", "except_rm"}) =>
                (rowPc'[r] = "done" /\ rows[r].file \notin wd')]_vars
    /\ []((\E r \in 1..Len(rows) : rowPc[r] = "pending") => ENABLED NextDataset)

\* C11: two distinct rows whose calls run at the same time never share a
\* path: not the archive in the working directory, not the extracted tree in
\* the working directory, not the task directory.
WriterDisjointness ==
    \A r, q \in 1..Len(rows) :
        (rows[r] # rows[q] /\ Running(r) /\ Running(q)) =>
            /\ rows[r].file # rows[q].file
            /\ task_dir(r) # task_dir(q)
            /\ (HasTree(r) /\ HasTree(q)) => rowTop[r] # rowTop[q]

\* C12: for total_frames >= frame_count >= 2 the sampled indices are
\* frame_count many, start at 0, end at total_frames - 1, never decrease and
\* lie in 0..total_frames-1.
SamplerContract ==
    calc.op = "indices" =>
        LET n == calc.frame_count
            t == calc.total_frames
            ix == calc.indices
        IN /\ Len(ix) = n
           /\ ix[1] = 0
           /\ ix[n] = t - 1
           /\ \A k \in 1..(n - 1) : ix[k] <= ix[k + 1]
           /\ \A k \in 1..n : ix[k] \in 0..(t - 1)

SampledFiftyToTwentyFive ==
    /\ calc.op = "indices"
    /\ calc.total_frames = 50
    /\ calc.frame_count = 25
    /\ calc.indices[2] = 2
    /\ calc.indices[24] = 46

\* The names the call is to produce in view folder v: the video and the JSON
\* file of every trial whose stream of that view it read and found valid.
Expected(v) ==
    {OutName(base_filename, tv[1], v, e) :
        tv \in {x \in call.valid : x[2] = v}, e \in {"mp4", "json"}}

BelowQuota == \A v \in ViewNames : Count(v) < Quota

QuotaPrecedesSampling ==
    [][(/\ prog = "processing"
        /\ pc = "view"
        /\ viewIdx <= Len(rgb_views)
        /\ seen'.what = "stream"
        /\ ShapeValid(seen'.shape)
        /\ QuotaReached(files[view_name])) => indices' = indices]_vars

\* A valid stream of the current view was read in this step.
ReadsValid ==
    /\ prog = "processing"
    /\ pc = "view"
    /\ viewIdx <= Len(rgb_views)
    /\ seen'.what = "stream"
    /\ ShapeValid(seen'.shape)

\* C15: a valid view whose folder holds 2 x max_pairs files or more is
\* skipped with no error and no file written, and the walk goes on with the
\* next view of the same trial; a valid view whose folder is below the quota
\* is produced whatever the other folders hold (the video and then the JSON
\* file are written unless an encoder fails); and the call returns False
\* only when all four folders hold at least 2 x max_pairs files.
PerViewQuota ==
    [][/\ (ReadsValid /\ Count(view_name) >= Quota) =>
              /\ pc' = "view"
              /\ viewIdx' = viewIdx + 1
              /\ trialIdx' = trialIdx
              /\ exc' = exc
              /\ files' = files
       /\ (ReadsValid /\ Count(view_name) < Quota) =>
              /\ pc' = "imageio"
              /\ viewIdx' = viewIdx
       /\ (prog = "processing" /\ pc = "imageio" /\ nFaults' = nFaults) =>
              /\ pc' = "json"
              /\ video_name \in files'[view_name]
       /\ (prog = "processing" /\ pc = "json") =>
              /\ pc' = "view"
              /\ json_name \in files'[view_name]
       /\ (prog = "processing" /\ pc # "ret" /\ pc' = "ret" /\ cont' = FALSE) =>
              AllFull]_vars

LeftSkippedRightProduced ==
    /\ prog = "processing"
    /\ pc = "json"
    /\ fileIdx = 1
    /\ trialIdx = 2
    /\ viewIdx = 2
    /\ nValid = 3
    /\ nFaults = 0
    /\ Count("left") >= Quota
    /\ OutName(base_filename, trials[1], "left", "mp4") \in files["left"]
    /\ OutName(base_filename, trials[2], "left", "mp4") \notin files["left"]
    /\ files["right"] = {video_name}
    /\ files["top"] = {}
    /\ files["wrist"] = {}

\* C16: in the quota-aware walker the OpenCV backend is tried exactly when
\* imageio raised; its writer uses mp4v exactly when the avc1 writer did not
\* open or raised, and avc1 otherwise; and the JSON file of a view is written
\* exactly when imageio, or else OpenCV, finished without raising.
TwoTierPolicy ==
    [][prog = "processing" =>
          /\ pc = "imageio" =>
                /\ pc' \in {"opencv", "json"}
                /\ pc' = "opencv" <=> nFaults' = nFaults + 1
          /\ (pc' = "opencv" /\ pc # "opencv") => pc = "imageio"
          /\ pc = "opencv" =>
                /\ writer'.avc1 \in {"opened", "closed", "raised"}
                /\ writer'.fourcc \in {"avc1", "mp4v"}
                /\ writer'.fourcc = "mp4v" <=> writer'.avc1 \in {"closed", "raised"}
                /\ writer'.fourcc = "avc1" => writer'.isOpened
                /\ pc' = IF writer'.raised THEN "h5_except" ELSE "json"
          /\ (pc' = "json" /\ pc # "json") => pc \in {"imageio", "opencv"}
          /\ pc = "json" => json_name \in files'[view_name]
          /\ (\E v \in ViewNames : \E f \in files'[v] \ files[v] : f.ext = "json") =>
                pc = "json"]_vars

Mp4vAfterAvc1DidNotOpen ==
    /\ prog = "processing"
    /\ pc = "json"
    /\ nFaults = 1
    /\ writer = [avc1 |-> "closed", fourcc |-> "mp4v", isOpened |-> TRUE, raised |-> FALSE]
    /\ video_name \in files[view_name]
    /\ json_name \notin files[view_name]

\* The smallest multiple of 16 that is at least d.
Ceil16(d) == CHOOSE m \in d..(d + 15) : m % 16 = 0

\* The largest even number that is at most d.
FloorEven(d) == CHOOSE m \in (d - 1)..d : m % 2 = 0

\* C17: the imageio path hands the encoder the smallest multiple of 16 at
\* least the frame's width and height, and the OpenCV path of either walker
\* hands it the largest even number at most the frame's width and height.
DimensionNormalization ==
    /\ calc.op = "imageio" =>
          /\ calc.new_width = Ceil16(calc.width)
          /\ calc.new_height = Ceil16(calc.height)
    /\ calc.op \in {"opencv", "simple"} =>
          /\ calc.new_width = FloorEven(calc.width)
          /\ calc.new_height = FloorEven(calc.height)

SaturationCheckSafe ==
    /\ (prog = "processing" /\ pc = "check") => ViewNames \subseteq dirs
    /\ exc # "listdir"

CheckAfterLeftOnly ==
    /\ prog = "processing"
    /\ pc = "check"
    /\ fileIdx = 1
    /\ trialIdx = 1
    /\ nValid = 1
    /\ seen.what = "absent"
    /\ OutName(base_filename, trial, "left", "json") \in files["left"]
    /\ \A v \in ViewNames \ {"left"} : files[v] = {}

\* C20: over one process_tarfile run no clip is written to a path that holds
\* a clip already (the folders hold no clip when the run starts): when the
\* walker is about to encode a view, no encoder having failed before, no
\* file of that name is in the folder.
NoOverwrite ==
    (prog = "processing" /\ pc = "imageio" /\ nFaults = 0) =>
        video_name \notin files[view_name]

====
